---------------------------- MODULE Spec2Model ----------------------------
(***************************************************************************)
(* A model of the SharePoint transport layer of pnpjs:                     *)
(*   packages/sp/sphttpclient.ts  SPHttpClient.fetch / fetchRaw and the    *)
(*                                request-digest cache (getDigestFactory), *)
(*   packages/sp/batch.ts         SPBatch.executeImpl and ParseResponse.   *)
(*                                                                         *)
(* Every asynchronous function is cut at its awaits: one action is the     *)
(* code that runs between two suspension points.  The underlying transport *)
(* (IHttpClientImpl.fetch), the clock and the result parsers of the        *)
(* batched requests are the environment.                                   *)
(***************************************************************************)
EXTENDS Integers, Sequences, FiniteSets, TLC

(***************************************************************************)
(* Bounds of the model.                                                    *)
(***************************************************************************)
\* SPHttpClient.fetch calls made in one run, all of which may overlap
MaxCalls == 2
\* clock ticks of one second each
MaxTicks == 1
\* retryable answers (429, 503, 504) the transport gives in one run
MaxThrottles == 1
\* requests appended to one batch
MaxRequests == 2
\* requests appended to a batch that is followed up to its encoding
MaxEncoded == 4
\* parts in the body that answers a batch
MaxParts == 3

(***************************************************************************)
(* Program constants.                                                      *)
(***************************************************************************)
\* IRetryContext.retryCount as fetchRaw sets it
RetryCount == 7
\* IRetryContext.delay as fetchRaw sets it, in milliseconds
InitialDelay == 100
\* the factor setRetry and dateAdd apply to a number of seconds
MsPerSecond == 1000

CallIds == 1..MaxCalls

\* options.fetchClient / the constructor argument when it is left out
Undefined == "undefined"
\* the transport instances a caller can hand in
SuppliedClients == {"fcA"}
\* the transport SPRuntimeConfig.fetchClientFactory() makes
FactoryClient == "fcFactory"
FetchClientOptions == SuppliedClients \cup {Undefined}

\* the sites (webs) a url can point into
Webs == {"w1", "w2"}

\* options.method; NoMethod is an options object without a method
NoMethod == "none"
Methods == {NoMethod, "GET", "get", "POST"}

\* lifetimes (FormDigestTimeoutSeconds) the issuance endpoint answers with
Lifetimes == {1, 2}

\* the origin of a url that is not absolute
Relative == ""

\* a value that is no sequence element: the empty option
None == << >>
Some(x) == << x >>

VARIABLES
    \* ---- sphttpclient.ts
    clock,                  \* new Date(), in milliseconds
    globalHeaders,          \* SPRuntimeConfig.headers (names)
    defaultFetchClient,     \* SPHttpClient._defaultFetchClient
    digestsPerClientCache,  \* WeakMap<IHttpClientImpl, Map<string, ICachedDigest>>
    calls,                  \* the fetch calls in progress, by slot
    throttles,              \* retryable answers the transport has given
    \* ---- batch.ts
    batchOptions,           \* SPBatch.options (IBatchConfigOptions)
    baseUrl,                \* SPBatch.baseUrl
    requests,               \* Batch.requests, in append order
    pc,                     \* where executeImpl is
    absoluteRequestUrl,     \* the local of that name, once toAbsoluteUrl answered
    batchBody,              \* the local of that name, once the batch is encoded
    text,                   \* the local of that name: the lines of the answer
    responses,              \* the Response[] ParseResponse returned
    settlement,             \* per request: its parser and its resolve / reject
    error                   \* what executeImpl threw

httpVars == << clock, globalHeaders, defaultFetchClient, digestsPerClientCache,
               calls, throttles >>

batchVars == << batchOptions, baseUrl, requests, pc, absoluteRequestUrl,
                batchBody, text, responses, settlement, error >>

vars == << httpVars, batchVars >>

(***************************************************************************)
(* Helpers of @pnp/common and @pnp/odata, and utils/extractweburl.         *)
(***************************************************************************)
\* a url is the web it points into and the path below it
Url(web, path) == [web |-> web, path |-> path]

\* extractWebUrl(url): the part of the url before "_api/"
extractWebUrl(url) == url.web

\* combine(webUrl, path)
combine(webUrl, path) == Url(webUrl, path)

\* mergeHeaders(target, source): the names of source are added to target
mergeHeaders(target, source) == target \cup source

\* String.prototype.toUpperCase on the method names of the model
toUpperCase(m) == IF m = "get" THEN "GET" ELSE m

\* toAbsoluteUrl(candidateUrl): an absolute url is returned as it is, another
\* is combined with the configured or the page's base, if there is one
toAbsoluteUrl(candidateUrl) ==
    IF candidateUrl # Relative THEN {candidateUrl} ELSE {"w1", Relative}

\* dateAdd(date, "second", units)
dateAdd(date, units) == date + units * MsPerSecond

\* new ODataParser().parse(resp).then(r => r.GetContextWebInformation):
\* succeeds on an ok response whose body holds the context information
parseOk(resp) == resp.status = 200 /\ resp.body # None


(***************************************************************************)
(* Data of sphttpclient.ts.                                                *)
(***************************************************************************)
\* a digest the issuance endpoint of web `web` gave to transport `fc` in an
\* answer that stated the lifetime `life`
Token(fc, web, life) == [fc |-> fc, web |-> web, life |-> life]

\* the digest a caller put into its own X-RequestDigest header
CallerDigest == Token("caller", "caller", 0)

\* the header sets a caller passes in options.headers
HeaderChoices == { {}, {"Authorization"}, {"X-RequestDigest"},
                   {"Authorization", "X-RequestDigest"} }

\* IFetchOptions as far as fetch and fetchRaw read them
Request(kind, url, method, headers, digest, fcOpt) ==
    [kind |-> kind, url |-> url, method |-> method, headers |-> headers,
     digest |-> digest, fcOpt |-> fcOpt]

NoRequest == Request("none", Url("w1", ""), NoMethod, {}, None, Undefined)

\* what IHttpClientImpl.fetch was called with: the transport and the request
Wire(fc, req) == [fc |-> fc, req |-> req]

\* an answer of the transport: the promise of IHttpClientImpl.fetch is
\* fulfilled ("then") or rejected ("catch") with a value that has a status
Answer(settle, status, retryAfter, body) ==
    [settle |-> settle, status |-> status, retryAfter |-> retryAfter, body |-> body]

NoAnswer == Answer("none", 0, None, None)

\* one fetch call: where it is suspended, its local variables, and a record
\* of what it did (tok, sends)
IdleCall ==
    [st      |-> "idle",
     opts    |-> NoRequest,      \* url and options of the call
     headers |-> {},             \* the Headers object fetch builds
     digest  |-> None,           \* the value of its X-RequestDigest
     fc      |-> Undefined,      \* fetchClient (line 62)
     ctx     |-> [attempts |-> 0, delay |-> 0],
     raw     |-> "none",         \* fetchRaw: "inflight" | "timer" | "none"
     wire    |-> Wire(Undefined, NoRequest),
     timer   |-> 0,              \* the delay given to setTimeout
     resp    |-> NoAnswer,       \* the value the call settled with
     err     |-> "",
     tok     |-> [called |-> 0, hit |-> FALSE, issues |-> 0],
     sends   |-> [issuance |-> 0, request |-> 0]]

(***************************************************************************)
(* SPHttpClient._getFetchClient (lines 160-170).                           *)
(***************************************************************************)
\* the transport it returns
getFetchClient(fcOpt, dflt) ==
    IF fcOpt # Undefined THEN fcOpt
    ELSE IF dflt = Undefined THEN FactoryClient
    ELSE dflt

\* this._defaultFetchClient after the call
defaultAfter(fcOpt, dflt) ==
    IF fcOpt # Undefined THEN dflt
    ELSE IF dflt = Undefined THEN FactoryClient
    ELSE dflt

(***************************************************************************)
(* The digest cache (lines 190-250).                                       *)
(***************************************************************************)
\* getCachedDigests(fetchClient): the cache once the transport has its map
getCachedDigests(cache, fc) ==
    IF fc \in DOMAIN cache THEN cache
    ELSE [k \in DOMAIN cache \cup {fc} |->
            IF k = fc THEN [w \in {} |-> 0] ELSE cache[k]]

\* a cache keyed by the web alone: the entry of any transport is returned
digestsGet_anyClient(cache, fc, webUrl) ==
    IF \E k \in DOMAIN cache : webUrl \in DOMAIN cache[k]
    THEN Some(cache[CHOOSE k \in DOMAIN cache : webUrl \in DOMAIN cache[k]][webUrl])
    ELSE None

\* digests.get(webUrl) on the map of fetchClient
digestsGet(cache, fc, webUrl) ==
    IF fc \in DOMAIN cache /\ webUrl \in DOMAIN cache[fc]
    THEN Some(cache[fc][webUrl]) ELSE None

\* digests.set(webUrl, entry) on the map of fetchClient
digestsSet(cache, fc, webUrl, entry) ==
    [k \in DOMAIN cache \cup {fc} |->
        IF k = fc
        THEN [w \in (IF fc \in DOMAIN cache THEN DOMAIN cache[fc] ELSE {})
                        \cup {webUrl} |->
                 IF w = webUrl THEN entry ELSE cache[fc][w]]
        ELSE cache[k]]

\* a digest that is still returned at the instant it expires
cachedDigestUsable_inclusive(cached, now) ==
    cached # None /\ now <= cached[1].expiration

\* lines 217-222: the cached digest is returned
cachedDigestUsable(cached, now) ==
    cached # None /\ now < cached[1].expiration

\* lines 241-244
newCachedDigest(now, parsed) ==
    [expiration |-> dateAdd(now, parsed.FormDigestTimeoutSeconds),
     value      |-> parsed.FormDigestValue]

\* lines 224-237: the request for a new digest
contextInfoRequest(fetchClient, webUrl) ==
    Request("issuance", combine(webUrl, "_api/contextinfo"), "POST",
            mergeHeaders({"Accept", "Content-Type"}, globalHeaders), None,
            fetchClient)

(***************************************************************************)
(* SPHttpClient.fetchRaw (lines 70-138).                                   *)
(***************************************************************************)
\* lines 128-137 and 105-108: a new retry context, and the first send
fetchRaw(call, req, dflt) ==
    [call EXCEPT !.ctx = [attempts |-> 0, delay |-> InitialDelay],
                 !.raw = "inflight",
                 !.wire = Wire(getFetchClient(req.fcOpt, dflt), req),
                 !.sends[req.kind] = @ + 1]

\* a setRetry that counts the attempts of all calls of the client together
setRetry_sharedCount(ctx, response) ==
    LET delay == IF response.retryAfter # None
                 THEN response.retryAfter[1] * MsPerSecond
                 ELSE ctx.delay
        ctx1  == [attempts |-> throttles + 1,
                  delay    |-> IF response.retryAfter # None
                               THEN ctx.delay ELSE ctx.delay * 2]
    IN IF RetryCount <= ctx1.attempts
       THEN [ctx |-> ctx1, do |-> "reject", delay |-> 0, err |-> "RetryCountExceeded"]
       ELSE [ctx |-> ctx1, do |-> "timer", delay |-> delay, err |-> ""]

\* a setRetry that gives up one answer later
setRetry_oneMore(ctx, response) ==
    LET delay == IF response.retryAfter # None
                 THEN response.retryAfter[1] * MsPerSecond
                 ELSE ctx.delay
        ctx1  == [attempts |-> ctx.attempts + 1,
                  delay    |-> IF response.retryAfter # None
                               THEN ctx.delay ELSE ctx.delay * 2]
    IN IF RetryCount < ctx1.attempts
       THEN [ctx |-> ctx1, do |-> "reject", delay |-> 0, err |-> "RetryCountExceeded"]
       ELSE [ctx |-> ctx1, do |-> "timer", delay |-> delay, err |-> ""]

\* a setRetry that doubles the backoff delay after every retryable answer
setRetry_doublesAlways(ctx, response) ==
    LET delay == IF response.retryAfter # None
                 THEN response.retryAfter[1] * MsPerSecond
                 ELSE ctx.delay
        ctx1  == [attempts |-> ctx.attempts + 1, delay |-> ctx.delay * 2]
    IN IF RetryCount <= ctx1.attempts
       THEN [ctx |-> ctx1, do |-> "reject", delay |-> 0, err |-> "RetryCountExceeded"]
       ELSE [ctx |-> ctx1, do |-> "timer", delay |-> delay, err |-> ""]

\* lines 80-103: setRetry(response): the context, and what is scheduled
setRetry(ctx, response) ==
    LET delay == IF response.retryAfter # None
                 THEN response.retryAfter[1] * MsPerSecond
                 ELSE ctx.delay
        ctx1  == [attempts |-> ctx.attempts + 1,
                  delay    |-> IF response.retryAfter # None
                               THEN ctx.delay ELSE ctx.delay * 2]
    IN IF RetryCount <= ctx1.attempts
       THEN [ctx |-> ctx1, do |-> "reject", delay |-> 0, err |-> "RetryCountExceeded"]
       ELSE [ctx |-> ctx1, do |-> "timer", delay |-> delay, err |-> ""]

\* handlers that hand every failure that is not retried to ctx.resolve
onSettled_resolvesFailures(ctx, response) ==
    IF response.status = 429 /\ response.settle = "then"
    THEN setRetry(ctx, response)
    ELSE IF response.settle = "catch" /\ response.status \in {503, 504}
    THEN setRetry(ctx, response)
    ELSE [ctx |-> ctx, do |-> "resolve", delay |-> 0, err |-> ""]

\* handlers that try again after every failure of the transport
onSettled_retriesAllFailures(ctx, response) ==
    IF response.settle = "then" /\ response.status # 429
    THEN [ctx |-> ctx, do |-> "resolve", delay |-> 0, err |-> ""]
    ELSE setRetry(ctx, response)

\* lines 108-125: the handlers of the transport's promise
onSettled(ctx, response) ==
    IF response.settle = "then"
    THEN IF response.status = 429
         THEN setRetry(ctx, response)
         ELSE [ctx |-> ctx, do |-> "resolve", delay |-> 0, err |-> ""]
    ELSE IF response.status = 503 \/ response.status = 504
         THEN setRetry(ctx, response)
         ELSE [ctx |-> ctx, do |-> "reject", delay |-> 0, err |-> "Response"]

\* a getDigest that sends its request with client.fetch, which asks for a
\* digest for it in turn
issueDigest_viaFetch(call, fetchClient, webUrl, dflt) ==
    LET req == contextInfoRequest(fetchClient, webUrl)
        nested == req.method # "GET" /\ "X-RequestDigest" \notin req.headers
                    /\ "Authorization" \notin req.headers
    IN [fetchRaw(call, req, dflt)
          EXCEPT !.st = "issuing", !.tok.issues = @ + 1,
                 !.tok.called = IF nested THEN @ + 1 ELSE @]

\* lines 224-237: getDigest sends its request with client.fetchRaw
issueDigest(call, fetchClient, webUrl, dflt) ==
    [fetchRaw(call, contextInfoRequest(fetchClient, webUrl), dflt)
        EXCEPT !.st = "issuing", !.tok.issues = @ + 1]

(***************************************************************************)
(* SPHttpClient.fetch (lines 24-68).                                       *)
(***************************************************************************)
\* lines 28-55: global headers, then the call's, then the defaults
fetchHeaders(global, local) ==
    mergeHeaders(mergeHeaders({}, global), local)
        \cup {"Accept", "Content-Type", "X-ClientService-ClientTag"}

\* a check that overlooks the Authorization header
needsDigest_ignoresAuthorization(method, headers) ==
    /\ method # NoMethod
    /\ toUpperCase(method) # "GET"
    /\ "X-RequestDigest" \notin headers

\* line 60
needsDigest(method, headers) ==
    /\ method # NoMethod
    /\ toUpperCase(method) # "GET"
    /\ "X-RequestDigest" \notin headers
    /\ "Authorization" \notin headers

\* lines 64-67: the digest is appended and the request goes to fetchRaw
sendWithDigest(call, digest, dflt) ==
    LET hs == call.headers \cup {"X-RequestDigest"}
    IN [fetchRaw([call EXCEPT !.headers = hs, !.digest = Some(digest)],
                 [call.opts EXCEPT !.headers = hs, !.digest = Some(digest)], dflt)
          EXCEPT !.st = "sending"]


(***************************************************************************)
(* Data of batch.ts.                                                       *)
(***************************************************************************)
\* ODataBatchRequestInfo as far as executeImpl reads it
BatchRequests == [method : {"GET", "POST"},
                  url : {Url("w1", "a"), Url(Relative, "a")},
                  options : [fetchClient : FetchClientOptions]]

\* the requests of one method: the method of a request decides the text of
\* its part of the body and nothing else of executeImpl
ReadRequests == { r \in BatchRequests : r.method = "GET" }

\* an Error executeImpl or ParseResponse throws, or a parser rejects with:
\* its kind and the request number or line index its message cites
Err(kind, cites) == [kind |-> kind, cites |-> cites]
NoError == Err("", -1)

\* one request's promise: whether its parser was started and has finished,
\* and how often and with what resolve and reject were called
Pending == [started |-> FALSE, finished |-> FALSE, parsed |-> "",
            resolved |-> 0, rejected |-> 0, reason |-> NoError]

\* the lines of a body, as String.split("\n") gives them: a line starts with
\* "--batchresponse_", or is blank, or is an HTTP status line, or is other text
Boundary == [k |-> "boundary"]
Blank == [k |-> "blank"]
StatusLine(code, reason) == [k |-> "status", code |-> code, reason |-> reason]
Text(t) == [k |-> "text", t |-> t]

\* new Response(body, {status, statusText}); new Response() is an empty 200
Response(body, status, statusText) ==
    [body |-> body, status |-> status, statusText |-> statusText]
EmptyResponse == Response(None, 200, "")

(***************************************************************************)
(* SPBatch.ParseResponse (lines 35-88).                                    *)
(***************************************************************************)
\* line.substr(0, header.length) === header
startsWithHeader(line) == line.k = "boundary"

\* line.trim() === ""
isBlank(line) == line.k = "blank"

\* statusRegExp.exec(line) !== null
matchesStatus(line) == line.k = "status"

\* an end of input that is accepted in every state
endsProperly_anywhere(state) == TRUE

\* line 83: the state in which the input may end
endsProperly(state) == state = "status"

\* the loop of lines 45-81 from line i (counted from 1) on, and lines 83-87
RECURSIVE parseLines(_, _, _, _, _, _)
parseLines(lines, i, state, status, statusText, out) ==
    IF i > Len(lines)
    THEN IF ~endsProperly(state)
         THEN [ok |-> FALSE, error |-> Err("UnexpectedEndOfInput", -1), responses |-> << >>]
         ELSE [ok |-> TRUE, error |-> NoError, responses |-> out]
    ELSE LET line == lines[i]
         IN CASE state = "batch" ->
                   IF startsWithHeader(line)
                   THEN parseLines(lines, i + 1, "batchHeaders", status, statusText, out)
                   ELSE IF ~isBlank(line)
                        THEN [ok |-> FALSE, error |-> Err("InvalidResponse", i - 1),
                              responses |-> << >>]
                        ELSE parseLines(lines, i + 1, state, status, statusText, out)
              [] state = "batchHeaders" ->
                   parseLines(lines, i + 1, IF isBlank(line) THEN "status" ELSE state,
                              status, statusText, out)
              [] state = "status" ->
                   IF ~matchesStatus(line)
                   THEN \* exec returned null and parts.length throws
                        [ok |-> FALSE, error |-> Err("TypeError", -1),
                         responses |-> << >>]
                   ELSE parseLines(lines, i + 1, "statusHeaders", line.code,
                                   line.reason, out)
              [] state = "statusHeaders" ->
                   parseLines(lines, i + 1, IF isBlank(line) THEN "body" ELSE state,
                              status, statusText, out)
              [] state = "body" ->
                   parseLines(lines, i + 1, "batch", status, statusText,
                              Append(out, IF status = 204 THEN EmptyResponse
                                          ELSE Response(Some(line), status, statusText)))

ParseResponse(body) == parseLines(body, 1, "batch", 0, "", << >>)

(***************************************************************************)
(* SPBatch.executeImpl (lines 90-265).                                     *)
(***************************************************************************)
\* isUrlAbsolute(url) of @pnp/common
isUrlAbsolute(url) == url.web # Relative

\* lines 94-101: the number of the request the loop throws for, or 0
fetchClientMismatch(reqs, options) ==
    LET bad == { i \in 1..Len(reqs) :
                   reqs[1].options.fetchClient # options.fetchClient }
    IN IF bad = {} THEN 0 ELSE CHOOSE i \in bad : \A j \in bad : i <= j

\* a test that lets the empty batch through
isEmptyBatch_offByOne(reqs) == Len(reqs) < 0

\* line 105
isEmptyBatch(reqs) == Len(reqs) < 1

\* line 157: the url of one request within the batch
requestUrl(reqInfo, absUrl) ==
    IF isUrlAbsolute(reqInfo.url) THEN reqInfo.url
    ELSE combine(absUrl, reqInfo.url.path)

\* a loop that checks the url of the first request alone
relativeUrlAt_firstOnly(reqs, absUrl) ==
    IF reqs # << >> /\ ~isUrlAbsolute(requestUrl(reqs[1], absUrl)) THEN 1 ELSE 0

\* lines 124-217: the number of the request the loop throws for, or 0
relativeUrlAt(reqs, absUrl) ==
    LET bad == { i \in 1..Len(reqs) : ~isUrlAbsolute(requestUrl(reqs[i], absUrl)) }
    IN IF bad = {} THEN 0 ELSE CHOOSE i \in bad : \A j \in bad : i <= j

\* the pieces of the body: the text pushed at lines 135 / 142, 143, 146,
\* 131 / 221 and 225, and the part of one request (lines 150-215: the part
\* prefix, the request line, its headers and its body)
BatchBoundary == [k |-> "batch"]
ChangeSetHeader(id) == [k |-> "changesetHeader", id |-> id]
ChangeSetBoundary(id) == [k |-> "changeset", id |-> id]
ChangeSetClose(id) == [k |-> "changesetClose", id |-> id]
BatchClose == [k |-> "batchClose"]
RequestPart(method, url) == [k |-> "part", method |-> method, url |-> url]

\* currentChangeSetId = ""
NoChangeSet == 0

\* getGUID(): an id no changeset of this body has yet
getGUID(opened) == opened + 1

\* an encoder that starts a changeset for every request that is not a GET
startsChangeSet_always(currentChangeSetId) == TRUE

\* line 139: currentChangeSetId.length < 1
startsChangeSet(currentChangeSetId) == currentChangeSetId = NoChangeSet

\* lines 127-147: what is pushed before the part of reqInfo, and the
\* changeset that is open after it
openPart(reqInfo, currentChangeSetId, opened) ==
    IF reqInfo.method = "GET"
    THEN [out |-> (IF currentChangeSetId # NoChangeSet
                   THEN << ChangeSetClose(currentChangeSetId) >> ELSE << >>)
                  \o << BatchBoundary >>,
          id |-> NoChangeSet, opened |-> opened]
    ELSE IF startsChangeSet(currentChangeSetId)
    THEN [out |-> << BatchBoundary, ChangeSetHeader(getGUID(opened)),
                     ChangeSetBoundary(getGUID(opened)) >>,
          id |-> getGUID(opened), opened |-> opened + 1]
    ELSE [out |-> << ChangeSetBoundary(currentChangeSetId) >>,
          id |-> currentChangeSetId, opened |-> opened]

\* the loop of lines 124-217 from request i on, and lines 219-225
RECURSIVE encodeFrom(_, _, _, _, _, _)
encodeFrom(reqs, i, currentChangeSetId, opened, absUrl, body) ==
    IF i > Len(reqs)
    THEN body \o (IF currentChangeSetId # NoChangeSet
                  THEN << ChangeSetClose(currentChangeSetId) >> ELSE << >>)
              \o << BatchClose >>
    ELSE LET o == openPart(reqs[i], currentChangeSetId, opened)
         IN encodeFrom(reqs, i + 1, o.id, o.opened, absUrl,
                       body \o o.out
                            \o << RequestPart(reqs[i].method,
                                              requestUrl(reqs[i], absUrl)) >>)

\* lines 120-225: batchBody for the requests of the batch
encode(reqs, absUrl) == encodeFrom(reqs, 1, NoChangeSet, 0, absUrl, << >>)

\* line 241
countMismatch(resps, reqs) == Len(resps) # Len(reqs)

\* callbacks that do not wait for one another (responses.map, Promise.all)
chainReady_unchained(index, settled) == TRUE

\* line 249: the callback of request index runs once the promise of the
\* requests before it is fulfilled
chainReady(index, settled) ==
    \A j \in 1..(index - 1) : settled[j].finished

\* a callback without the try / catch: the failure of a parser rejects the
\* chain and the request is left alone
afterParse_uncaught(index, ok) ==
    IF ok
    THEN [resolve |-> 1, reject |-> 0, reason |-> NoError, goesOn |-> TRUE]
    ELSE [resolve |-> 0, reject |-> 0, reason |-> NoError, goesOn |-> FALSE]

\* lines 255-262: what the callback does with the outcome of the parser,
\* and whether the chain goes on
afterParse(index, ok) ==
    IF ok
    THEN [resolve |-> 1, reject |-> 0, reason |-> NoError, goesOn |-> TRUE]
    ELSE [resolve |-> 0, reject |-> 1, reason |-> Err("ResultParse", index),
          goesOn |-> TRUE]

(***************************************************************************)
(* The environment of the transport layer.                                 *)
(***************************************************************************)
\* the answers the transport can give to what is on the wire; the token
\* endpoint issues digests for the transport and the web it was asked on
Answers(wire) ==
    LET infos == IF wire.req.kind = "issuance"
                 THEN { Some([FormDigestValue |->
                                  Token(wire.fc, extractWebUrl(wire.req.url), l),
                              FormDigestTimeoutSeconds |-> l]) : l \in Lifetimes }
                 ELSE {}
    IN  { Answer("then", 200, None, b) : b \in infos \cup {None} }
        \cup { Answer("then", 429, ra, None) : ra \in {None, Some(2)} }
        \cup { Answer("then", 503, None, None) }
        \cup { Answer("catch", st, ra, None) :
                   st \in {503, 504}, ra \in {None, Some(2)} }
        \cup { Answer("catch", 0, None, None) }

\* the answers after which fetchRaw tries again
Retryable(a) ==
    \/ a.settle = "then" /\ a.status = 429
    \/ a.settle = "catch" /\ a.status \in {503, 504}

(***************************************************************************)
(* Actions of sphttpclient.ts.                                             *)
(***************************************************************************)
\* SPHttpClient.fetch(url, options) up to its first suspension, with the
\* synchronous part of getDigest (lines 211-237) when a digest is needed
fetch(c, url, method, hdrs, fcOpt) ==
    LET opts    == Request("request", url, method, hdrs,
                           IF "X-RequestDigest" \in hdrs
                           THEN Some(CallerDigest) ELSE None, fcOpt)
        headers == fetchHeaders(globalHeaders, hdrs)
        call0   == [IdleCall EXCEPT !.opts = [opts EXCEPT !.headers = headers],
                                    !.headers = headers, !.digest = opts.digest]
    IN
    /\ calls[c].st = "idle"
    /\ IF needsDigest(method, headers)
       THEN LET fetchClient == getFetchClient(fcOpt, defaultFetchClient)
                dflt        == defaultAfter(fcOpt, defaultFetchClient)
                webUrl      == extractWebUrl(url)
                digests     == getCachedDigests(digestsPerClientCache, fetchClient)
                cached      == digestsGet(digests, fetchClient, webUrl)
                call1       == [call0 EXCEPT !.fc = fetchClient,
                                             !.tok.called = @ + 1,
                                             !.tok.hit =
                                                 cachedDigestUsable(cached, clock)]
            IN /\ defaultFetchClient' = dflt
               /\ digestsPerClientCache' = digests
               /\ calls' = [calls EXCEPT ![c] =
                     IF cachedDigestUsable(cached, clock)
                     THEN sendWithDigest(call1, cached[1].value, dflt)
                     ELSE issueDigest(call1, fetchClient, webUrl, dflt)]
       ELSE /\ defaultFetchClient' = defaultAfter(fcOpt, defaultFetchClient)
            /\ calls' = [calls EXCEPT ![c] =
                  [fetchRaw(call0, call0.opts, defaultFetchClient)
                      EXCEPT !.st = "sending"]]
            /\ UNCHANGED digestsPerClientCache
    /\ UNCHANGED << clock, globalHeaders, throttles >>

\* the promise of fetchRaw is settled: its retry context and the request it
\* sent are no longer referenced
settled(call) ==
    [call EXCEPT !.ctx = IdleCall.ctx, !.raw = "none", !.wire = IdleCall.wire,
                 !.timer = 0]

\* the promise of fetch is settled: nothing of the call is referenced but
\* the value it settled with
finished(call, st, resp, err) ==
    [IdleCall EXCEPT !.st = st, !.resp = resp, !.err = err,
                     !.tok = call.tok, !.sends = call.sends]

\* the promise of IHttpClientImpl.fetch settles and the handlers of
\* fetchRaw run (lines 108-125); the transport gives at most `budget`
\* retryable answers in one run
transportSettlesWithin(c, a, budget) ==
    LET call == calls[c]
        r    == onSettled(call.ctx, a)
    IN
    /\ call.raw = "inflight"
    /\ a \in Answers(call.wire)
    /\ Retryable(a) => throttles < budget
    /\ throttles' = IF Retryable(a) THEN throttles + 1 ELSE throttles
    /\ calls' = [calls EXCEPT ![c] =
          CASE r.do = "timer" ->
                 [call EXCEPT !.ctx = r.ctx, !.raw = "timer", !.timer = r.delay]
            [] r.do = "reject" -> finished(call, "rejected", a, r.err)
            [] r.do = "resolve" ->
                 IF call.st = "issuing"
                 THEN [settled(call) EXCEPT !.st = "parsing", !.resp = a]
                 ELSE finished(call, "resolved", a, "")]
    /\ UNCHANGED << clock, globalHeaders, defaultFetchClient, digestsPerClientCache >>
    /\ UNCHANGED batchVars

\* the same where the transport gives at most MaxThrottles retryable answers
transportSettles(c, a) == transportSettlesWithin(c, a, MaxThrottles)

\* the timer of setRetry fires: retry(ctx) sends the request again
\* (lines 101, 105-108)
retry(c) ==
    LET call == calls[c]
    IN
    /\ call.raw = "timer"
    /\ defaultFetchClient' = defaultAfter(call.wire.req.fcOpt, defaultFetchClient)
    /\ calls' = [calls EXCEPT ![c] =
          [call EXCEPT !.raw = "inflight", !.timer = 0,
                       !.wire = Wire(getFetchClient(call.wire.req.fcOpt,
                                                   defaultFetchClient),
                                     call.wire.req),
                       !.sends[call.wire.req.kind] = @ + 1]]
    /\ UNCHANGED << clock, globalHeaders, digestsPerClientCache, throttles >>
    /\ UNCHANGED batchVars

\* getDigest after its request was answered (lines 239-248), and the rest
\* of fetch (lines 64-67)
digestParsed(c) ==
    LET call == calls[c]
    IN
    /\ call.st = "parsing"
    /\ IF parseOk(call.resp)
       THEN LET entry == newCachedDigest(clock, call.resp.body[1])
                webUrl == extractWebUrl(call.opts.url)
            IN /\ digestsPerClientCache' =
                      digestsSet(digestsPerClientCache, call.fc, webUrl, entry)
               /\ calls' = [calls EXCEPT ![c] =
                      sendWithDigest(call, entry.value, defaultFetchClient)]
       ELSE /\ calls' = [calls EXCEPT ![c] =
                      finished(call, "rejected", call.resp, "Parse")]
            /\ UNCHANGED digestsPerClientCache
    /\ UNCHANGED << clock, globalHeaders, defaultFetchClient, throttles >>
    /\ UNCHANGED batchVars

\* time passes
tick ==
    /\ clock < MaxTicks * MsPerSecond
    /\ clock' = clock + MsPerSecond
    /\ UNCHANGED << globalHeaders, defaultFetchClient, digestsPerClientCache,
                    calls, throttles >>
    /\ UNCHANGED batchVars

(***************************************************************************)
(* The transport layer under concurrent callers.                           *)
(***************************************************************************)
InitHttp ==
    /\ clock = 0
    /\ globalHeaders \in { {}, {"Authorization"} }
    /\ defaultFetchClient = Undefined
    /\ digestsPerClientCache = << >>
    /\ calls = [c \in CallIds |-> IdleCall]
    /\ throttles = 0

\* the answer was not read
NoText == << >>

\* a batch nothing was appended to
InitBatch ==
    /\ batchOptions \in [fetchClient : FetchClientOptions]
    /\ baseUrl \in {"w1", Relative}
    /\ requests = << >>
    /\ pc = "building"
    /\ absoluteRequestUrl = None
    /\ batchBody = << >>
    /\ text = NoText
    /\ responses = << >>
    /\ settlement = << >>
    /\ error = NoError

\* no batch is executed
NoBatch ==
    /\ batchOptions = [fetchClient |-> Undefined]
    /\ baseUrl = "w1"
    /\ requests = << >>
    /\ pc = "building"
    /\ absoluteRequestUrl = None
    /\ batchBody = << >>
    /\ text = NoText
    /\ responses = << >>
    /\ settlement = << >>
    /\ error = NoError

Init == InitHttp /\ NoBatch

\* a caller starts a call
fetchAny(c) ==
    /\ \E w \in Webs, m \in Methods, h \in HeaderChoices, f \in FetchClientOptions :
          fetch(c, Url(w, "_api/web"), m, h, f)
    /\ UNCHANGED batchVars

\* a caller starts a mutating call that carries no credentials of its own
fetchMutating(c) ==
    /\ \E w \in Webs, f \in FetchClientOptions :
          fetch(c, Url(w, "_api/web"), "POST", {}, f)
    /\ UNCHANGED batchVars

Next ==
    \/ \E c \in CallIds : fetchAny(c)
    \/ \E c \in CallIds : \E a \in Answers(calls[c].wire) : transportSettles(c, a)
    \/ \E c \in CallIds : retry(c)
    \/ \E c \in CallIds : digestParsed(c)
    \/ tick

Spec == Init /\ [][Next]_vars

InitDigest ==
    /\ Init
    /\ globalHeaders = {}

NextDigest ==
    \/ \E c \in CallIds : fetchMutating(c)
    \/ \E c \in CallIds : \E a \in Answers(calls[c].wire) : transportSettles(c, a)
    \/ \E c \in CallIds : retry(c)
    \/ \E c \in CallIds : digestParsed(c)
    \/ tick

SpecDigest == InitDigest /\ [][NextDigest]_vars


(***************************************************************************)
(* fetchRaw alone: calls that need no digest, and a transport that may     *)
(* give a retryable answer to every send.                                  *)
(***************************************************************************)
\* the slot of the call that is followed on its own
RetryCall == 1

\* retryable answers are never refused: a call takes RetryCount of them at most
RetryBudget == RetryCount * MaxCalls

InitRetry ==
    /\ Init
    /\ globalHeaders = {}

\* a caller starts a read: fetch hands it to fetchRaw as it is
fetchRead(c) ==
    /\ \E w \in Webs, m \in {NoMethod, "GET"}, f \in FetchClientOptions :
          fetch(c, Url(w, "_api/web"), m, {}, f)
    /\ UNCHANGED batchVars

\* one call
NextRetry ==
    \/ fetchRead(RetryCall)
    \/ \E a \in Answers(calls[RetryCall].wire) :
          transportSettlesWithin(RetryCall, a, RetryBudget)
    \/ retry(RetryCall)

SpecRetry == InitRetry /\ [][NextRetry]_vars

\* one call, where every send is answered and every timer fires
SpecRetryFair ==
    /\ SpecRetry
    /\ WF_vars(\E a \in Answers(calls[RetryCall].wire) :
                  transportSettlesWithin(RetryCall, a, RetryBudget))
    /\ WF_vars(retry(RetryCall))

\* a caller starts the read of one url
fetchReadSame(c) ==
    /\ \E f \in FetchClientOptions : fetch(c, Url("w1", "_api/web"), "GET", {}, f)
    /\ UNCHANGED batchVars

\* calls on one client that overlap
NextRetryAll ==
    \/ \E c \in CallIds : fetchReadSame(c)
    \/ \E c \in CallIds : \E a \in Answers(calls[c].wire) :
          transportSettlesWithin(c, a, RetryBudget)
    \/ \E c \in CallIds : retry(c)

SpecRetryAll == InitRetry /\ [][NextRetryAll]_vars

(***************************************************************************)
(* Calls for one key of the digest cache, one after the other, with a      *)
(* transport that gives as many retryable answers in the run as use up the *)
(* retries of one call.                                                    *)
(***************************************************************************)
\* a caller that has awaited its earlier calls starts a mutating call; its
\* c-th call has slot c
fetchNext(c) ==
    /\ \A d \in 1..(c - 1) : calls[d].st \in {"resolved", "rejected"}
    /\ \A d \in (c + 1)..MaxCalls : calls[d].st = "idle"
    /\ fetch(c, Url("w1", "_api/web"), "POST", {}, Undefined)
    /\ UNCHANGED batchVars

NextIssuance ==
    \/ \E c \in CallIds : fetchNext(c)
    \/ \E c \in CallIds : \E a \in Answers(calls[c].wire) :
          transportSettlesWithin(c, a, RetryCount)
    \/ \E c \in CallIds : retry(c)
    \/ \E c \in CallIds : digestParsed(c)
    \/ tick

SpecIssuance == InitRetry /\ [][NextIssuance]_vars

(***************************************************************************)
(* Actions of batch.ts.  The batch sends through the call slot BatchCall.  *)
(***************************************************************************)
BatchCall == 1

\* the bodies the batch endpoint can answer with: k parts well formed, the
\* same cut short, the same with one line replaced by other text or by an
\* empty line, and the empty string
PartLines(code) ==
    << Boundary, Text("Content-Type: application/http"), Blank,
       StatusLine(code, IF code = 200 THEN "OK" ELSE "No Content"),
       Text("CONTENT-TYPE: application/json"), Blank, Text("{}") >>

RECURSIVE WellFormed(_)
WellFormed(codes) ==
    IF codes = << >> THEN << Boundary, Blank >>
    ELSE PartLines(Head(codes)) \o WellFormed(Tail(codes))

Variants(b) ==
    {b} \cup { SubSeq(b, 1, k) : k \in 1..(Len(b) - 1) }
        \cup { [b EXCEPT ![k] = Text("garbage")] : k \in 1..Len(b) }
        \cup { [b EXCEPT ![k] = Blank] : k \in 1..Len(b) }
        \cup { << Blank >> }

Bodies ==
    UNION { Variants(WellFormed(codes)) :
              codes \in UNION { [1..k -> {200, 204}] : k \in 0..MaxParts } }

\* one body for each way the bodies decode
Texts ==
    { CHOOSE b \in Bodies : ParseResponse(b) = r :
        r \in { ParseResponse(b) : b \in Bodies } }

\* a request is appended to a batch of fewer than n requests (Batch.add)
addWithin(r, n) ==
    /\ pc = "building"
    /\ Len(requests) < n
    /\ requests' = Append(requests, r)
    /\ settlement' = Append(settlement, Pending)
    /\ UNCHANGED << batchOptions, baseUrl, pc, absoluteRequestUrl, batchBody,
                    text, responses, error >>
    /\ UNCHANGED httpVars

add(r) == addWithin(r, MaxRequests)

\* executeImpl up to its first await (lines 92-117)
executeImpl ==
    LET i == fetchClientMismatch(requests, batchOptions)
    IN
    /\ pc = "building"
    /\ IF i # 0
       THEN /\ pc' = "failed"
            /\ error' = Err("FetchClientMismatch", i)
            /\ UNCHANGED defaultFetchClient
       ELSE IF isEmptyBatch(requests)
       THEN /\ pc' = "done"
            /\ UNCHANGED << error, defaultFetchClient >>
       ELSE /\ pc' = "toAbsoluteUrl"
            \* new SPHttpClient(this.options.fetchClient)
            /\ defaultFetchClient' = batchOptions.fetchClient
            /\ UNCHANGED error
    /\ UNCHANGED << batchOptions, baseUrl, requests, absoluteRequestUrl, batchBody,
                    text, responses, settlement >>
    /\ UNCHANGED << clock, globalHeaders, digestsPerClientCache, calls, throttles >>

\* toAbsoluteUrl(this.baseUrl) has answered: the body is built and sent
\* (lines 117-237)
encodeAndSend(absUrl) ==
    LET i == relativeUrlAt(requests, absUrl)
    IN
    /\ pc = "toAbsoluteUrl"
    /\ absUrl \in toAbsoluteUrl(baseUrl)
    /\ absoluteRequestUrl' = Some(absUrl)
    /\ IF i # 0
       THEN /\ pc' = "failed"
            /\ error' = Err("RelativeUrl", i)
            /\ UNCHANGED batchBody
            /\ UNCHANGED httpVars
       ELSE /\ pc' = "fetch"
            /\ batchBody' = encode(requests, absUrl)
            /\ fetch(BatchCall, combine(absUrl, "_api/$batch"), "POST",
                     {"Content-Type"}, Undefined)
            /\ UNCHANGED error
    /\ UNCHANGED << batchOptions, baseUrl, requests, text, responses, settlement >>

\* client.fetch has settled: the text is read, decoded and counted
\* (lines 237-245)
decode(lines) ==
    LET call   == calls[BatchCall]
        parsed == ParseResponse(lines)
    IN
    /\ pc = "fetch"
    /\ call.st \in {"resolved", "rejected"}
    /\ IF call.st = "rejected"
       THEN /\ pc' = "failed"
            /\ error' = Err(call.err, call.resp.status)
            /\ UNCHANGED << text, responses >>
       ELSE IF ~parsed.ok
       THEN /\ pc' = "failed"
            /\ text' = lines
            /\ error' = parsed.error
            /\ UNCHANGED responses
       ELSE IF countMismatch(parsed.responses, requests)
       THEN /\ pc' = "failed"
            /\ text' = lines
            /\ responses' = parsed.responses
            /\ error' = Err("CountMismatch", -1)
       ELSE /\ pc' = "resolving"
            /\ text' = lines
            /\ responses' = parsed.responses
            /\ UNCHANGED error
    \* the client and the promise of its fetch are no longer referenced
    /\ calls' = [calls EXCEPT ![BatchCall] = IdleCall]
    /\ UNCHANGED << batchOptions, baseUrl, requests, absoluteRequestUrl, batchBody,
                    settlement >>
    /\ UNCHANGED << clock, globalHeaders, defaultFetchClient, digestsPerClientCache,
                    throttles >>

\* the callback of request index starts: request.parser.parse(response)
\* (lines 249-257)
parserStarts(index) ==
    /\ pc = "resolving"
    /\ index \in 1..Len(requests)
    /\ ~settlement[index].started
    /\ chainReady(index, settlement)
    /\ settlement' = [settlement EXCEPT ![index].started = TRUE]
    /\ UNCHANGED << batchOptions, baseUrl, requests, pc, absoluteRequestUrl,
                    batchBody, text, responses, error >>
    /\ UNCHANGED httpVars

\* the parser of request index has finished: the request is settled and
\* the chain goes on (lines 257-264)
parserSettles(index, ok) ==
    LET r == afterParse(index, ok)
    IN
    /\ pc = "resolving"
    /\ index \in 1..Len(requests)
    /\ settlement[index].started /\ ~settlement[index].finished
    /\ settlement' = [settlement EXCEPT
            ![index] = [@ EXCEPT !.finished = r.goesOn,
                                 !.parsed = IF ok THEN "ok" ELSE "failed",
                                 !.resolved = @ + r.resolve,
                                 !.rejected = @ + r.reject,
                                 !.reason = r.reason]]
    /\ IF ~r.goesOn
       THEN pc' = "failed" /\ error' = Err("ResultParse", index)
       ELSE /\ pc' = IF \A j \in 1..Len(requests) :
                             j # index => settlement[j].finished
                     THEN "done" ELSE pc
            /\ UNCHANGED error
    /\ UNCHANGED << batchOptions, baseUrl, requests, absoluteRequestUrl, batchBody,
                    text, responses >>
    /\ UNCHANGED httpVars

(***************************************************************************)
(* One batch from its creation to the end of execute.                      *)
(***************************************************************************)
InitOneBatch ==
    /\ InitHttp
    /\ globalHeaders = {}
    /\ InitBatch

NextBatch ==
    \/ \E r \in ReadRequests : add(r)
    \/ executeImpl
    \/ \E u \in Webs \cup {Relative} : encodeAndSend(u)
    \/ \E a \in Answers(calls[BatchCall].wire) : transportSettles(BatchCall, a)
    \/ retry(BatchCall)
    \/ digestParsed(BatchCall)
    \/ \E lines \in Texts : decode(lines)
    \/ \E i \in 1..MaxRequests : parserStarts(i)
    \/ \E i \in 1..MaxRequests, ok \in BOOLEAN : parserSettles(i, ok)

SpecBatch == InitOneBatch /\ [][NextBatch]_vars

(***************************************************************************)
(* One batch of reads up to the decoding of its answer, for every answer.  *)
(***************************************************************************)
InitDecode ==
    /\ InitOneBatch
    /\ batchOptions = [fetchClient |-> Undefined]
    /\ baseUrl = "w1"

\* the transport answers the batch without asking for a retry
batchAnswered(a) == transportSettlesWithin(BatchCall, a, 0)

NextDecode ==
    \/ \E r \in ReadRequests : add(r)
    \/ executeImpl
    \/ \E u \in Webs : encodeAndSend(u)
    \/ \E a \in Answers(calls[BatchCall].wire) : batchAnswered(a)
    \/ digestParsed(BatchCall)
    \/ \E lines \in Bodies : decode(lines)

SpecDecode == InitDecode /\ [][NextDecode]_vars

(***************************************************************************)
(* One batch from its creation to the encoding of its body.                *)
(***************************************************************************)
\* requests of either method, with the fetch client left out
EncodedRequests == { r \in BatchRequests : r.options.fetchClient = Undefined }

NextEncode ==
    \/ \E r \in EncodedRequests : addWithin(r, MaxEncoded)
    \/ executeImpl
    \/ \E u \in Webs \cup {Relative} : encodeAndSend(u)

SpecEncode == InitOneBatch /\ [][NextEncode]_vars

(***************************************************************************)
(* Claims about the digest cache and the digest injection of fetch.        *)
(***************************************************************************)
\* a method that is not a pure read; a call without a method is a GET
Mutating(method) == method \notin {NoMethod, "GET", "get"}

\* the call is between its start and its settlement
InProgress(call) == call.st \in {"issuing", "parsing", "sending"}

\* the entry the cache holds for (fc, web), as an option
EntryOf(cache, fc, web) ==
    IF fc \in DOMAIN cache /\ web \in DOMAIN cache[fc]
    THEN Some(cache[fc][web]) ELSE None

\* call c has just been started and asked the cache for a digest
AsksForDigest(c) == calls[c].st = "idle" /\ calls'[c].tok.called = 1

\* C7: a getToken call made while now < expiresAt of the cached entry of its
\* key returns the cached value without any network call and leaves the
\* cache as it is; a call made with no entry or with now >= expiresAt makes
\* exactly one issuance call, and when that call is answered stores
\* expiresAt = (now, as read when the answer is parsed) + the lifetime of the
\* answer together with the value of the answer, and returns that value.
C7_DigestCacheHitAndRefresh ==
    [][\A c \in CallIds :
         /\ AsksForDigest(c) =>
              LET e == EntryOf(digestsPerClientCache, calls'[c].fc,
                               calls'[c].opts.url.web)
              IN IF e # None /\ clock < e[1].expiration
                 THEN /\ calls'[c].st = "sending"
                      /\ calls'[c].digest = Some(e[1].value)
                      /\ calls'[c].tok.issues = 0
                      /\ calls'[c].sends.issuance = 0
                      /\ calls'[c].wire.req.kind = "request"
                      /\ \A f \in SuppliedClients \cup {FactoryClient}, w \in Webs :
                           EntryOf(digestsPerClientCache', f, w)
                             = EntryOf(digestsPerClientCache, f, w)
                 ELSE /\ calls'[c].st = "issuing"
                      /\ calls'[c].tok.issues = 1
                      /\ calls'[c].sends.issuance = 1
                      /\ calls'[c].wire.req.kind = "issuance"
         /\ calls'[c].tok.issues <= 1
         /\ calls'[c].tok.hit => calls'[c].sends.issuance = 0
         /\ (calls[c].st = "parsing" /\ calls'[c].st = "sending") =>
              LET info == calls[c].resp.body[1]
                  new  == [value |-> info.FormDigestValue,
                           expiration |-> clock + info.FormDigestTimeoutSeconds * 1000]
              IN /\ EntryOf(digestsPerClientCache', calls[c].fc,
                            calls[c].opts.url.web) = Some(new)
                 /\ calls'[c].digest = Some(new.value)
                 /\ calls'[c].tok.issues = 1
      ]_vars

\* C7 witness: a call found no usable entry, had a digest issued and has
\* resolved, and a later call got its digest from the cache
C7_Witness ==
    \E c1, c2 \in CallIds :
        /\ calls[c1].st = "resolved" /\ calls[c1].tok.issues = 1
        /\ calls[c2].st = "sending" /\ calls[c2].tok.hit

\* C8: under every interleaving of calls over several transports and webs,
\* each cache entry is the value and the lifetime of one issuance answer
\* given to the transport and for the web of its key (stored at some time up
\* to now), and a caller's digest was issued to its own transport for its
\* own web.
C8_CacheEntriesWhole ==
    /\ \A fc \in DOMAIN digestsPerClientCache :
         \A w \in DOMAIN digestsPerClientCache[fc] :
            LET e == digestsPerClientCache[fc][w]
            IN /\ e.value.fc = fc
               /\ e.value.web = w
               /\ e.expiration - e.value.life * 1000 \in 0..clock
    /\ \A c \in CallIds :
         (calls[c].st = "sending" /\ calls[c].tok.called = 1) =>
            /\ calls[c].digest # None
            /\ calls[c].digest[1].fc = calls[c].wire.fc
            /\ calls[c].digest[1].web = calls[c].opts.url.web

\* C8 witness: two calls on different transports and the same web are being
\* sent at the same time, each with a digest from the cache
C8_Witness ==
    \E c1, c2 \in CallIds :
        /\ calls[c1].st = "sending" /\ calls[c2].st = "sending"
        /\ calls[c1].tok.called = 1 /\ calls[c2].tok.called = 1
        /\ calls[c1].wire.fc # calls[c2].wire.fc
        /\ calls[c1].opts.url.web = calls[c2].opts.url.web
        /\ Cardinality(DOMAIN digestsPerClientCache) = 2

\* C9: a call whose method is not GET and whose merged headers hold neither
\* X-RequestDigest nor Authorization asks the digest cache once, for its own
\* transport and the web of its url, and whenever its request is on the wire
\* the request carries that digest as X-RequestDigest; any other call never
\* asks for a digest and its request goes out with the headers it had.
C9_DigestInjection ==
    \A c \in CallIds :
        LET call == calls[c]
            need == /\ Mutating(call.opts.method)
                    /\ "X-RequestDigest" \notin call.opts.headers
                    /\ "Authorization" \notin call.opts.headers
        IN InProgress(call) =>
             IF need
             THEN /\ call.tok.called = 1
                  /\ call.st \in {"issuing", "parsing"} =>
                        /\ call.tok.issues = 1
                        /\ call.sends.request = 0
                        /\ call.raw # "none" =>
                             /\ call.wire.req.kind = "issuance"
                             /\ call.wire.fc = call.fc
                             /\ call.wire.req.url.web = call.opts.url.web
                  /\ call.st = "sending" =>
                        /\ call.wire.req.kind = "request"
                        /\ "X-RequestDigest" \in call.wire.req.headers
                        /\ call.wire.req.digest # None
                        /\ call.wire.req.digest[1].fc = call.wire.fc
                        /\ call.wire.req.digest[1].web = call.opts.url.web
                        /\ call.wire.fc = call.fc
             ELSE /\ call.tok.called = 0
                  /\ call.st = "sending"
                  /\ call.sends.issuance = 0
                  /\ call.wire.req.kind = "request"
                  /\ call.wire.req.headers = call.opts.headers
                  /\ call.wire.req.digest = call.opts.digest

\* C9 witness: a POST without credentials is on the wire a second time, after
\* a retry, with an issued digest
C9_Witness ==
    \E c \in CallIds :
        /\ calls[c].st = "sending" /\ calls[c].raw = "inflight"
        /\ calls[c].opts.method = "POST"
        /\ calls[c].tok.issues = 1
        /\ calls[c].sends.request = 2

\* C10: the request for a new digest goes out without a digest header, and
\* getting a digest never asks the cache again: one fetch asks it at most
\* once, and one getToken call makes at most one issuance call (fetchRaw),
\* however often that call is retried.
C10_IssuanceDoesNotRecurse ==
    \A c \in CallIds :
        /\ calls[c].tok.called <= 1
        /\ calls[c].tok.issues <= calls[c].tok.called
        /\ calls[c].sends.issuance > 0 => calls[c].tok.issues = 1
        /\ calls[c].wire.req.kind = "issuance" =>
              /\ "X-RequestDigest" \notin calls[c].wire.req.headers
              /\ calls[c].wire.req.digest = None
              /\ calls[c].wire.req.url.path = "_api/contextinfo"

\* C10 witness: the issuance request was sent twice (one retry) within one
\* issuance call of one getToken call
C10_Witness ==
    \E c \in CallIds :
        /\ calls[c].st = "issuing" /\ calls[c].raw = "inflight"
        /\ calls[c].sends.issuance = 2
        /\ calls[c].tok.issues = 1 /\ calls[c].tok.called = 1


(***************************************************************************)
(* Claims about the retries of fetchRaw.                                   *)
(***************************************************************************)
\* the transport answers the send of call c with a
AnsweredWith(c, a) == transportSettlesWithin(c, a, RetryBudget)

\* C11: after a 429 answer that does not use up the retry count, the next
\* send is scheduled (setTimeout) after Retry-After seconds * 1000 ms when
\* the answer has that header, and the backoff delay stays as it is;
\* otherwise after the backoff delay, which is doubled for the next time.
\* The backoff delay of a call starts at 100 ms, and the send after a wait
\* is one further send of the same call with the same context.
C11_RetryDelay ==
    [][\A c \in CallIds :
         /\ \A a \in Answers(calls[c].wire) :
              (/\ AnsweredWith(c, a)
               /\ a.settle = "then" /\ a.status = 429
               /\ calls[c].ctx.attempts + 1 < 7) =>
                 /\ calls'[c].raw = "timer"
                 /\ calls'[c].ctx.attempts = calls[c].ctx.attempts + 1
                 /\ calls'[c].sends = calls[c].sends
                 /\ IF a.retryAfter # None
                    THEN /\ calls'[c].timer = a.retryAfter[1] * 1000
                         /\ calls'[c].ctx.delay = calls[c].ctx.delay
                    ELSE /\ calls'[c].timer = calls[c].ctx.delay
                         /\ calls'[c].ctx.delay = 2 * calls[c].ctx.delay
         /\ (calls[c].st = "idle" /\ calls'[c].st # "idle") =>
                 /\ calls'[c].ctx = [attempts |-> 0, delay |-> 100]
                 /\ calls'[c].sends.request = 1
         /\ (calls[c].raw = "timer" /\ calls'[c].raw # "timer") =>
                 /\ calls'[c].raw = "inflight"
                 /\ calls'[c].ctx = calls[c].ctx
                 /\ calls'[c].sends.request = calls[c].sends.request + 1
      ]_vars

\* C11 witness: a call waits 2000 ms for its third send: its first answer
\* was a 429 without Retry-After, its second a 429 with Retry-After: 2
C11_Witness ==
    /\ calls[RetryCall].raw = "timer"
    /\ calls[RetryCall].timer = 2000
    /\ calls[RetryCall].ctx = [attempts |-> 2, delay |-> 200]
    /\ calls[RetryCall].sends.request = 2

\* C12: every answer of status 503 below the retry count is followed by a
\* wait and another send, and the 503 that is the seventh answer of the call
\* rejects the call with the retry-count-exceeded error made from that
\* answer, after seven sends; so a call that is always answered 503 fails
\* after exactly seven sends, and there is never an eighth.
C12_UnavailableExhaustsRetries ==
    [][\A c \in CallIds :
         /\ \A a \in Answers(calls[c].wire) :
              (AnsweredWith(c, a) /\ a.status = 503) =>
                 IF calls[c].ctx.attempts + 1 < 7
                 THEN /\ calls'[c].raw = "timer"
                      /\ calls'[c].st = calls[c].st
                 ELSE /\ calls'[c].st = "rejected"
                      /\ calls'[c].err = "RetryCountExceeded"
                      /\ calls'[c].resp = a
                      /\ calls'[c].sends.request = 7
         /\ calls'[c].sends.request <= 7
      ]_vars

\* C12 witness: a call was rejected for the retry count after seven sends,
\* the last of which the transport rejected with status 503
C12_Witness ==
    /\ calls[RetryCall].st = "rejected"
    /\ calls[RetryCall].err = "RetryCountExceeded"
    /\ calls[RetryCall].resp.settle = "catch"
    /\ calls[RetryCall].resp.status = 503
    /\ calls[RetryCall].sends.request = 7

\* C13: an answer of another status than 429, 503 and 504 settles the call
\* at once with that answer: a response resolves it, a failure rejects it;
\* no wait is scheduled and nothing is sent for the call again, however many
\* retries went before.
C13_OtherAnswersAreTerminal ==
    [][\A c \in CallIds :
         /\ \A a \in Answers(calls[c].wire) :
              (AnsweredWith(c, a) /\ a.status \notin {429, 503, 504}) =>
                 /\ calls'[c].st = IF a.settle = "then" THEN "resolved" ELSE "rejected"
                 /\ calls'[c].resp = a
                 /\ calls'[c].err = IF a.settle = "then" THEN "" ELSE "Response"
                 /\ calls'[c].raw = "none"
                 /\ calls'[c].timer = 0
                 /\ calls'[c].sends = calls[c].sends
         /\ calls[c].st \in {"resolved", "rejected"} => calls'[c] = calls[c]
      ]_vars

\* C13 witness: after two retries the transport failed with another status
\* and the call was rejected with that failure
C13_Witness ==
    /\ calls[RetryCall].st = "rejected"
    /\ calls[RetryCall].err = "Response"
    /\ calls[RetryCall].resp.status = 0
    /\ calls[RetryCall].sends.request = 3

\* the promise call c returned is settled
IsSettled(c) == calls[c].st \in {"resolved", "rejected"}

\* C14: where every send is answered and every timer fires, a call that was
\* started is settled in the end, whatever the transport answers; it makes
\* seven sends at most, and once it is settled it has no send in flight and
\* no timer, and nothing of it changes again (it is settled once).
C14_FetchRawSettles ==
    /\ (calls[RetryCall].st = "sending") ~> IsSettled(RetryCall)
    /\ [](calls[RetryCall].sends.request <= 7)
    /\ [](IsSettled(RetryCall) =>
            calls[RetryCall].raw = "none" /\ calls[RetryCall].timer = 0)
    /\ [][IsSettled(RetryCall) => calls'[RetryCall] = calls[RetryCall]]_vars

\* C14 witness: a call was resolved by the answer to its seventh send
C14_Witness ==
    /\ calls[RetryCall].st = "resolved"
    /\ calls[RetryCall].resp.status = 200
    /\ calls[RetryCall].sends.request = 7

\* C19: under every interleaving of overlapping calls on one client, a step
\* of one call changes nothing of another call; the attempts of a call count
\* the retryable answers to its own sends and its backoff delay is 100 ms
\* doubled at most once for each of them; and whatever the other calls do, a
\* call with a send in flight can be answered and a call whose wait is over
\* can send again.
C19_RetryStateIsPerCall ==
    [][\A c \in CallIds :
         /\ calls'[c] # calls[c] =>
               \A d \in CallIds \ {c} : calls'[d] = calls[d]
         /\ calls'[c].raw = "inflight" =>
               calls'[c].ctx.attempts = calls'[c].sends.request - 1
         /\ calls'[c].raw = "timer" =>
               calls'[c].ctx.attempts = calls'[c].sends.request
         /\ calls'[c].raw # "none" =>
               calls'[c].ctx.delay \in
                   { 100 * 2^k : k \in 0..calls'[c].ctx.attempts }
         /\ calls[c].raw = "inflight" =>
               ENABLED (\E a \in Answers(calls[c].wire) : AnsweredWith(c, a))
         /\ calls[c].raw = "timer" => ENABLED retry(c)
      ]_vars

\* C19 witness: one call has used up its retries and was rejected, while
\* another, started before that, waits for its second send
C19_Witness ==
    \E c, d \in CallIds :
        /\ calls[c].st = "rejected" /\ calls[c].err = "RetryCountExceeded"
        /\ calls[c].sends.request = 7
        /\ calls[d].raw = "timer"
        /\ calls[d].ctx = [attempts |-> 1, delay |-> 200]
        /\ calls[d].sends.request = 1

(***************************************************************************)
(* Claims about a fetch whose digest could not be issued.                  *)
(***************************************************************************)
\* the call asked for a new digest and was rejected without one
IssuanceFailed(call) ==
    /\ call.st = "rejected"
    /\ call.tok.issues = 1
    /\ call.sends.request = 0

\* the transport answers the issuance request of call c with a
IssuanceAnsweredWith(c, a) == transportSettlesWithin(c, a, RetryCount)

\* C21: when the issuance call fails (a failure of the transport that is
\* not retried, the retry count used up, or an answer that cannot be
\* parsed), the fetch that needed the digest is rejected with that very
\* failure, its own request is never sent, no cache entry is written, and
\* the next call for the same key makes a new issuance call.
C21_IssuanceFailurePropagates ==
    [][\A c \in CallIds :
         /\ calls[c].st = "issuing" =>
              \A a \in Answers(calls[c].wire) :
                 IssuanceAnsweredWith(c, a) =>
                    IF a.settle = "catch" /\ a.status \notin {503, 504}
                    THEN /\ calls'[c].st = "rejected"
                         /\ calls'[c].resp = a
                         /\ calls'[c].err = "Response"
                    ELSE IF /\ \/ a.settle = "then" /\ a.status = 429
                               \/ a.settle = "catch" /\ a.status \in {503, 504}
                            /\ calls[c].ctx.attempts + 1 >= 7
                    THEN /\ calls'[c].st = "rejected"
                         /\ calls'[c].resp = a
                         /\ calls'[c].err = "RetryCountExceeded"
                    ELSE calls'[c].st \in {"issuing", "parsing"}
         /\ (calls[c].st = "parsing" /\ calls'[c].st # "parsing") =>
              IF calls[c].resp.status = 200 /\ calls[c].resp.body # None
              THEN calls'[c].st = "sending"
              ELSE /\ calls'[c].st = "rejected"
                   /\ calls'[c].resp = calls[c].resp
                   /\ calls'[c].err = "Parse"
         /\ (calls[c].st \in {"issuing", "parsing"} /\ calls'[c].st = "rejected") =>
              /\ IssuanceFailed(calls'[c])
              /\ calls'[c].raw = "none"
              /\ digestsPerClientCache' = digestsPerClientCache
         /\ IssuanceFailed(calls[c]) => calls'[c] = calls[c]
         /\ (AsksForDigest(c) /\ c > 1 /\ IssuanceFailed(calls[c - 1])) =>
              /\ calls'[c].st = "issuing"
              /\ calls'[c].tok.issues = 1
              /\ calls'[c].sends.issuance = 1
              /\ calls'[c].wire.req.kind = "issuance"
      ]_vars

\* C21 witness: the issuance call of one fetch used up its retries and the
\* fetch was rejected; the next fetch for the key has asked for a digest anew
C21_Witness ==
    \E c, d \in CallIds :
        /\ c = d + 1
        /\ IssuanceFailed(calls[d])
        /\ calls[d].err = "RetryCountExceeded"
        /\ calls[d].sends.issuance = 7
        /\ calls[c].st = "issuing"
        /\ calls[c].sends.issuance = 1

(***************************************************************************)
(* Claims about the body executeImpl encodes.                              *)
(***************************************************************************)
\* the positions of body up to p that hold a piece of kind k
PiecesUpTo(body, p, k) == { q \in 1..p : body[q].k = k }

\* the changesets that are open after piece p
OpenAt(body, p) ==
    Cardinality(PiecesUpTo(body, p, "changesetHeader"))
        - Cardinality(PiecesUpTo(body, p, "changesetClose"))

\* the id of the changeset opened last up to p
OpenId(body, p) ==
    LET hs == PiecesUpTo(body, p, "changesetHeader")
    IN body[CHOOSE q \in hs : \A r \in hs : r <= q].id

\* the position of the j-th part
PartAt(body, j) ==
    CHOOSE q \in 1..Len(body) :
        body[q].k = "part" /\ Cardinality(PiecesUpTo(body, q, "part")) = j

IsWrite(r) == r.method # "GET"

\* the requests that begin a maximal run of requests that are not GETs
RunStarts(reqs) ==
    { j \in 1..Len(reqs) : IsWrite(reqs[j]) /\ (j = 1 \/ ~IsWrite(reqs[j - 1])) }

\* C15: the encoded body holds one part for each request, in the order of
\* the requests; the part of a GET follows a top-level boundary with no
\* changeset open; every maximal run of requests other than GET is one
\* changeset with an id of its own, opened under one top-level boundary,
\* with one part for each request of the run, and closed before the next
\* GET or the end; never more than one changeset is open, and the body ends
\* with the close marker of the batch with no changeset open.
C15_EncodedBodyStructure ==
    pc = "fetch" =>
      LET b == batchBody
          n == Len(requests)
          last == Len(b)
      IN
      /\ Cardinality(PiecesUpTo(b, last, "part")) = n
      /\ \A j \in 1..n :
            LET q == PartAt(b, j)
            IN /\ b[q].method = requests[j].method
               /\ b[q].url = requestUrl(requests[j], absoluteRequestUrl[1])
               /\ IF IsWrite(requests[j])
                  THEN /\ OpenAt(b, q) = 1
                       /\ b[q - 1] = ChangeSetBoundary(OpenId(b, q))
                  ELSE /\ OpenAt(b, q) = 0
                       /\ b[q - 1] = BatchBoundary
      /\ \A j \in 1..(n - 1) :
            (IsWrite(requests[j]) /\ IsWrite(requests[j + 1])) =>
               /\ OpenId(b, PartAt(b, j)) = OpenId(b, PartAt(b, j + 1))
               /\ \A q \in PartAt(b, j)..PartAt(b, j + 1) :
                     b[q].k \notin {"changesetHeader", "changesetClose", "batch"}
      /\ \A q \in 1..last : OpenAt(b, q) \in {0, 1}
      /\ \A q \in 1..last :
            /\ b[q].k = "changesetHeader" =>
                  /\ q > 1 /\ b[q - 1] = BatchBoundary
                  /\ \A r \in 1..(q - 1) :
                        b[r].k = "changesetHeader" => b[r].id # b[q].id
            /\ b[q].k = "changesetClose" =>
                  /\ b[q].id = OpenId(b, q)
                  /\ q < last
                  /\ b[q + 1] \in {BatchBoundary, BatchClose}
            /\ b[q] = BatchClose <=> q = last
      /\ Cardinality(PiecesUpTo(b, last, "changesetHeader"))
            = Cardinality(RunStarts(requests))
      /\ Cardinality(PiecesUpTo(b, last, "batch"))
            = Cardinality({ j \in 1..n : ~IsWrite(requests[j]) })
                + Cardinality(RunStarts(requests))
      /\ OpenAt(b, last) = 0

\* C15 witness: [GET a, POST b, POST c, GET d] is encoded as the part of a,
\* one changeset with the parts of b and c, and the part of d
C15_Witness ==
    /\ pc = "fetch"
    /\ Len(requests) = 4
    /\ << requests[1].method, requests[2].method, requests[3].method,
          requests[4].method >> = << "GET", "POST", "POST", "GET" >>
    /\ LET a == RequestPart("GET", Url("w1", "a"))
           w == RequestPart("POST", Url("w1", "a"))
       IN batchBody = << BatchBoundary, a,
                         BatchBoundary, ChangeSetHeader(1),
                         ChangeSetBoundary(1), w, ChangeSetBoundary(1), w,
                         ChangeSetClose(1),
                         BatchBoundary, a, BatchClose >>

\* request i has a url that is not absolute and is not made absolute by the
\* base url of the batch
StaysRelative(i) ==
    ~isUrlAbsolute(requestUrl(requests[i], absoluteRequestUrl[1]))

\* C16: when the url of some request, at whatever position, is still not
\* absolute after it was combined with the resolved base url, execute fails
\* with the error that names such a request (its method and url), and the
\* batch is not sent: no digest is requested and nothing is posted.
C16_RelativeUrlIsFatal ==
    (absoluteRequestUrl # None /\ \E i \in 1..Len(requests) : StaysRelative(i)) =>
        /\ pc = "failed"
        /\ error.kind = "RelativeUrl"
        /\ error.cites \in 1..Len(requests)
        /\ StaysRelative(error.cites)
        /\ batchBody = << >>
        /\ calls[BatchCall] = IdleCall
        /\ digestsPerClientCache = << >>

\* C16 witness: the third of four requests is the first whose url stays
\* relative, and execute failed naming it
C16_Witness ==
    /\ pc = "failed"
    /\ Len(requests) = 4
    /\ error = Err("RelativeUrl", 3)
    /\ requests[3].method = "POST"
    /\ StaysRelative(3)

(***************************************************************************)
(* Claims about SPBatch.ParseResponse.                                     *)
(***************************************************************************)
\* the cycle of the decoder as it is described: the state after a line
DecoderStep(state, line) ==
    CASE state = "batch" ->
           IF startsWithHeader(line) THEN "batchHeaders"
           ELSE IF isBlank(line) THEN "batch" ELSE "failed"
      [] state = "batchHeaders" -> IF isBlank(line) THEN "status" ELSE state
      [] state = "status" -> IF matchesStatus(line) THEN "statusHeaders" ELSE "failed"
      [] state = "statusHeaders" -> IF isBlank(line) THEN "body" ELSE state
      [] state = "body" -> "batch"
      [] state = "failed" -> "failed"

\* the state of the decoder after the first n lines
RECURSIVE DecoderState(_, _)
DecoderState(lines, n) ==
    IF n = 0 THEN "batch" ELSE DecoderStep(DecoderState(lines, n - 1), lines[n])

\* the positions of the lines the decoder meets in state st
MetIn(lines, st) == { i \in 1..Len(lines) : DecoderState(lines, i - 1) = st }

\* the j-th of them
NthMetIn(lines, st, j) ==
    CHOOSE i \in MetIn(lines, st) :
        Cardinality({ k \in MetIn(lines, st) : k <= i }) = j

\* ParseResponse returned its responses
Returned == text # NoText /\ error.kind \in {"", "CountMismatch"}

\* C17: when the decoder is in state status and the line does not match the
\* pattern of a status line, decoding fails with the invalid-status error
\* that cites the index of that line, and no responses are returned.
C17_BadStatusLineCitesLine ==
    \A i \in 1..Len(text) :
        (DecoderState(text, i - 1) = "status" /\ ~matchesStatus(text[i])) =>
            /\ pc = "failed"
            /\ error = Err("InvalidStatus", i - 1)
            /\ responses = << >>

\* C17 witness: the line met in state status was no status line
C17_Witness ==
    /\ pc = "failed"
    /\ \E i \in 1..Len(text) :
          /\ DecoderState(text, i - 1) = "status"
          /\ text[i] = Text("garbage")

\* C18: the decoder goes through batch, batchHeaders, status, statusHeaders,
\* body and batch again, one response for each body line; it returns the
\* responses only when the input ends in state status; an input that ends in
\* another state (the empty string and a body cut off within a part too)
\* fails with the unexpected-end error; a line met in state batch that is
\* neither blank nor a boundary fails with the invalid-response error citing
\* its index.
C18_DecoderCycleAndEnd ==
    text # NoText =>
      LET final == DecoderState(text, Len(text))
      IN
      /\ final = "status" =>
            /\ Returned
            /\ Len(responses) = Cardinality(MetIn(text, "body"))
      /\ final \in {"batch", "batchHeaders", "statusHeaders", "body"} =>
            /\ pc = "failed"
            /\ error = Err("UnexpectedEndOfInput", -1)
            /\ responses = << >>
      /\ \A i \in MetIn(text, "batch") :
            (~isBlank(text[i]) /\ ~startsWithHeader(text[i])) =>
               /\ pc = "failed"
               /\ error = Err("InvalidResponse", i - 1)
               /\ responses = << >>
      /\ Returned => final = "status"

\* C18 witness: the answer was cut off after the status line of its second
\* part and decoding failed with the unexpected-end error
C18_Witness ==
    /\ pc = "failed"
    /\ error = Err("UnexpectedEndOfInput", -1)
    /\ text # NoText
    /\ DecoderState(text, Len(text)) = "statusHeaders"
    /\ Cardinality(MetIn(text, "body")) = 1

\* C20: the j-th response returned has the status and the reason of the j-th
\* status line of the input, and as body the line met in state body after
\* it; for a status line of 204 the body is empty whatever that line holds,
\* and the response still has the status of its status line.
C20_PartsCarryStatusAndBody ==
    Returned =>
      /\ Len(responses) = Cardinality(MetIn(text, "body"))
      /\ \A j \in 1..Len(responses) :
            LET st == text[NthMetIn(text, "status", j)]
                bd == text[NthMetIn(text, "body", j)]
            IN /\ responses[j].status = st.code
               /\ responses[j].statusText = st.reason
               /\ responses[j].body = IF st.code = 204 THEN None ELSE Some(bd)

\* C20 witness: two parts, the first of status 204, were decoded
C20_Witness ==
    /\ Returned
    /\ Len(responses) = 2
    /\ text[NthMetIn(text, "status", 1)].code = 204
    /\ text[NthMetIn(text, "status", 2)].code = 200
    /\ responses[2] = Response(Some(Text("{}")), 200, "OK")

(***************************************************************************)
(* Claims about SPBatch.executeImpl.                                       *)
(***************************************************************************)
\* how often request i was settled
Settled(i) == settlement[i].resolved + settlement[i].rejected

\* C1: once the answer is decoded into as many parts as there are requests,
\* the requests are settled in append order: the parser of request i+1 is
\* not started, and request i+1 is neither resolved nor rejected, before the
\* parser of request i has finished and request i has been settled.
C1_ResolvedInAppendOrder ==
    \A i \in 1..(Len(requests) - 1) :
        (settlement[i + 1].started \/ Settled(i + 1) > 0) =>
            /\ settlement[i].started
            /\ settlement[i].finished
            /\ Settled(i) = 1

\* C1 witness: the parser of the first request failed and the request was
\* rejected; the parser of the second one runs
C1_Witness ==
    /\ pc = "resolving"
    /\ Len(requests) >= 2
    /\ settlement[1].finished /\ settlement[1].rejected = 1
    /\ settlement[2].started /\ ~settlement[2].finished

\* C2: when executeImpl of a batch with requests has ended, however it
\* ended, every request was settled exactly once.
C2_EverySettledExactlyOnce ==
    (pc \in {"done", "failed"} /\ Len(requests) >= 1) =>
        \A i \in 1..Len(requests) : Settled(i) = 1

\* C3: a request whose parser fails is rejected with that parser's error, and
\* only that request; the failure does not end executeImpl with an error: it
\* goes on with the next request, every request is settled as its own parser
\* ended, and executeImpl completes.
C3_ParseFailureIsLocal ==
    /\ \A i \in 1..Len(requests) :
         /\ settlement[i].parsed = "failed" =>
               /\ settlement[i].rejected = 1 /\ settlement[i].resolved = 0
               /\ settlement[i].reason = Err("ResultParse", i)
               /\ settlement[i].finished
         /\ settlement[i].parsed = "ok" =>
               /\ settlement[i].resolved = 1 /\ settlement[i].rejected = 0
               /\ settlement[i].finished
         /\ settlement[i].parsed = "" => Settled(i) = 0
    /\ (\E i \in 1..Len(requests) : settlement[i].parsed = "failed") =>
         /\ pc \in {"resolving", "done"}
         /\ error = NoError
         /\ pc = "resolving" =>
               \E j \in 1..Len(requests) :
                   /\ ~settlement[j].finished
                   /\ \A k \in 1..(j - 1) : settlement[k].finished
         /\ pc = "done" =>
               \A j \in 1..Len(requests) : settlement[j].parsed # ""

\* C3 witness: the first request was rejected by its parser, the second was
\* resolved after it, and executeImpl has completed
C3_Witness ==
    /\ pc = "done"
    /\ Len(requests) >= 2
    /\ settlement[1].parsed = "failed" /\ settlement[1].rejected = 1
    /\ settlement[2].parsed = "ok" /\ settlement[2].resolved = 1

\* C4: when some request of the batch has another fetch client than the
\* batch, execute fails with the error that names such a request, and
\* nothing is sent: no request for a digest and no POST of the batch.
C4_MixedFetchClientsRejected ==
    (pc # "building" /\ \E i \in 1..Len(requests) :
          requests[i].options.fetchClient # batchOptions.fetchClient) =>
        /\ pc = "failed"
        /\ error.kind = "FetchClientMismatch"
        /\ error.cites \in 1..Len(requests)
        /\ requests[error.cites].options.fetchClient # batchOptions.fetchClient
        /\ absoluteRequestUrl = None
        /\ calls[BatchCall] = IdleCall

\* C5: when the body decodes into another number of parts than there are
\* requests, every request is rejected with the one error of the mismatch,
\* none is resolved and no parser is started.
C5_CountMismatchRejectsAll ==
    error.kind = "CountMismatch" =>
        \A i \in 1..Len(requests) :
            /\ settlement[i].rejected = 1
            /\ settlement[i].reason = error
            /\ settlement[i].resolved = 0
            /\ ~settlement[i].started

\* C6: executing a batch without requests completes without an error and
\* without any call: toAbsoluteUrl is not called, no client is made, no
\* digest is requested and nothing is posted.
C6_EmptyBatchSendsNothing ==
    (Len(requests) = 0 /\ pc # "building") =>
        /\ pc = "done"
        /\ error = NoError
        /\ absoluteRequestUrl = None
        /\ calls[BatchCall] = IdleCall
        /\ digestsPerClientCache = << >>
        /\ defaultFetchClient = Undefined

\* C6 witness: execute of an empty batch has completed
C6_Witness == Len(requests) = 0 /\ pc = "done"

==========================================================================
